---- MODULE Spec2Model ----
(***************************************************************************)
(* progchain server: the streaming chat generator (core/chat/chat.py), the *)
(* explore chat orchestrator (features/explore/chat.py), its persistence   *)
(* (features/explore/models.py), its session registry                      *)
(* (features/explore/service.py), the lookup of a chat by its public id    *)
(* (db/mixins.py), the vector store adapter (core/vector/store.py), the    *)
(* thread service (features/threads/service.py) and the topics generator   *)
(* (features/topics/topics.py).                                            *)
(*                                                                         *)
(* One step of the model is one run of a coroutine between two suspension  *)
(* points (an await on the database or on the model, or a yield to the     *)
(* consumer), which is the unit asyncio interleaves.                       *)
(*                                                                         *)
(* Text is a sequence of integers.  The i-th character the model produces  *)
(* for the call of task t is Char(t, i), so that loss, duplication and     *)
(* reordering of characters are all visible.                               *)
(***************************************************************************)
EXTENDS Integers, Sequences, FiniteSets, TLC

\* ---------------------------------------------------------------- bounds
MaxTasks == 2          \* concurrent requests
MaxText == 5           \* characters one model stream produces at most (SpecGen)
MaxAnswer == 3         \* characters one model stream produces at most (SpecExplore)
MaxFragLen == 2        \* characters of one model fragment at most (SpecGen)
MaxAnswerFragLen == 1  \* characters of one model fragment at most (SpecExplore)
MaxChats == 3          \* chats the database ever holds
DEFAULT_BUFFER_SIZE == 2   \* chat.py:66 sets 100; scaled down with the texts
CacheMaxSize == 1      \* service.py:45 sets LFUCache(maxsize=100); scaled down with the chats
MaxQueries == 2        \* distinct non-empty strings passed to the VectorDB
MaxClock == 3          \* ticks of the cache's timer
TTL == 2               \* store.py:45 sets ttl=60 (seconds); scaled down to ticks
QueryCacheMaxSize == 1 \* store.py:45 sets TTLCache(maxsize=100); scaled down with the queries
SearchK == 1           \* chat.py:52 sets search_k=5; scaled down with the index
MaxClears == 1         \* clear() calls that succeed
MaxAdds == 1           \* add_interaction / add_message calls in progress at once
MaxThreads == 3        \* threads the database ever holds
BatchSize == 2         \* llm.py:25 sets batch_size=3; scaled down
MaxPieces == 4         \* pieces one topics stream delivers at most
MaxRoadmaps == 2       \* roadmaps ever created
MaxNodes == 2          \* nodes one generated roadmap has at most

Tasks == 1..MaxTasks
Chats == 1..MaxChats

None == <<-1>>         \* Python's None, for a text-valued field
Empty == <<>>          \* the empty string
NoInst == 0            \* no object
NoMsg == 0

Char(t, i) == t * 10 + i
\* characters a+1 .. b of the model stream of task t
Chars(t, a, b) == [i \in 1..(b - a) |-> Char(t, a + i)]

RECURSIVE Flatten(_)
\* "".join(chunks)
Flatten(chunks) == IF chunks = <<>> THEN <<>> ELSE Head(chunks) \o Flatten(Tail(chunks))

VARIABLES
    task,       \* per request: its coroutine's position and locals; prev is the
                \* object the registry held for its chat when its access began,
                \* rebuilt whether the access constructed an object, retrieval
                \* how the query_history call of its generation ended
    insts,      \* the chat-system objects ever constructed, by identity (index)
    cache,      \* ResearchAssistantService.cache: chat id -> object, 0 when absent
    freq,       \* the LFU cache's use counters
    chats,      \* table explore_chats: chat id -> [exists, chat_topic, deleted]
    messages,   \* table explore_chat_messages, in created_at order
    labelCalls, \* per chat: topic-label model calls made so far
    textLimit,  \* characters a model stream produces at most (fixed by Init)
    fragLimit,  \* characters a model fragment holds at most (fixed by Init)
    stopAt,     \* per task: what was seen when stop_generation() hit its generation
    assistants, \* ResearchAssistantService.assistants: the set of its keys
    index,      \* VectorDB.vector_store: the texts it holds
    qcache,     \* VectorDB.query_cache: its entries, oldest first
    now,        \* the cache's timer, in ticks
    epoch,      \* how many times the vector store was built anew by clear()
    adds,       \* add_interaction / add_message calls in progress
    call,       \* the last call made on the VectorDB and how it ended
    lastFetch,  \* per query: the last successful retrieval since the last clear
    threads,    \* the Thread objects made so far, in order of creation
    contents,   \* tables threads / thread_contents: thread id -> [exists, cnt]
    gcalls,     \* per request: its generate_content call's position and locals
    topicGen,   \* a TopicsGenerator.generate_topics call and what it has saved
    roadmaps,   \* table roadmaps, each row with the statuses of its roadmap_nodes
    rcall,      \* the roadmap operation in progress, or the last one and how it ended
    content_chats \* table thread_content_chat, each row with the call that wrote it

\* the VectorDB of core/vector/store.py
vdbVars == <<index, qcache, now, epoch, adds, call, lastFetch>>

\* the chat systems and the explore service
appVars == <<task, insts, cache, freq, chats, messages, labelCalls, textLimit,
             fragLimit, stopAt, assistants>>

\* the thread service, the topics generator and the roadmap service
\* the roadmap tables and the request working on them
roadmapVars == <<roadmaps, rcall>>

featureVars == <<threads, contents, gcalls, topicGen, roadmaps, rcall, content_chats>>

vars == <<task, insts, cache, freq, chats, messages, labelCalls, textLimit, fragLimit,
          stopAt, assistants, index, qcache, now, epoch, adds, call, lastFetch,
          threads, contents, gcalls, topicGen, roadmaps, rcall, content_chats>>

\* ------------------------------------------------------------- the locals
IdleTask ==
    [pc |-> "idle", op |-> "none", chat |-> 0, q |-> Empty, inst |-> NoInst,
     msg |-> NoMsg, buffer |-> Empty, received |-> 0,
     yielded |-> <<>>, cancelled |-> FALSE, outcome |-> "none",
     history |-> <<>>, prev |-> NoInst, rebuilt |-> FALSE, retrieval |-> "none"]

\* a request whose coroutine has returned: its locals are gone; what it asked
\* and on which object is kept for the properties
Returned(me) ==
    [IdleTask EXCEPT !.pc = "done", !.op = me.op, !.chat = me.chat, !.q = me.q,
                     !.inst = me.inst]

NoStop == [called |-> FALSE, checks |-> 0, atCheck |-> 0]

\* BaseChatSystem.__init__ / ResearchAssistant.__init__
\* by_id: the object was reconstructed for a chat looked up by its public id
NewInst(chat, seed, by_id) ==
    [chat |-> chat, stop_generating |-> FALSE, stop_generation |-> FALSE,
     topic |-> None, seed |-> seed, by_id |-> by_id]

\* requests are numbered in the order in which they start
MayStart(t) == task[t].pc = "idle" /\ \A u \in Tasks : u < t => task[u].pc # "idle"

Generating(t) == task[t].pc \in {"astream", "yield_full", "yield_stop", "yield_last"}

\* ------------------------------------------------ BaseChatSystem._generate_text
\* line 185: buffer += chunk
Accumulate(buffer, chunk) == buffer \o chunk

\* a generator that emits only once the buffer exceeds the threshold
BufferFull_Above(buffer) == Len(buffer) > DEFAULT_BUFFER_SIZE

\* line 186: len(buffer) >= self.DEFAULT_BUFFER_SIZE
BufferFull(buffer) == Len(buffer) >= DEFAULT_BUFFER_SIZE

\* a generator that forgets the partial buffer
HasRemainder_Never(buffer) == FALSE

\* lines 181 and 190: `if buffer:`
HasRemainder(buffer) == buffer # Empty

\* a generator that reads the attribute stop_generation() sets
StopRequested_Shared(i) == insts[i].stop_generating

\* line 180: `if self._stop_generation:`
StopRequested(i) == insts[i].stop_generation

\* VectorDB.query_history as the generator uses it: the retrieval over the
\* object's index, which holds the seed text and nothing else (nothing in the
\* explore or thread code adds to it)
QueryHistory(i) == insts[i].seed

\* lines 171-177: get_model, buffer = "", _prepare_chain_input, the chain,
\* self._stop_generation = False; the generator then waits for chain.astream
EnterGenerateText(me, i) ==
    [me EXCEPT !.pc = "astream", !.inst = i, !.buffer = Empty, !.received = 0,
               !.yielded = <<>>, !.history = QueryHistory(i), !.retrieval = "ok"]

\* a stream_chat that records the chat after its loop instead of in a
\* finally block
AfterStream_NoFinally(me, outcome) ==
    [me EXCEPT !.outcome = outcome, !.buffer = Empty,
               !.pc = IF outcome \in {"completed", "cancelled"} THEN "create_chat"
                      ELSE "done"]

\* ThreadIDChat.stream_chat, threads/chat.py:88-90: however the loop over
\* generate_response was left, the finally block runs up to its await of
\* ThreadContentChat.create_chat; contents is the list of the chunks yielded
AfterStream(me, outcome) ==
    [me EXCEPT !.pc = "create_chat", !.outcome = outcome, !.buffer = Empty]

\* where the caller of generate_response goes on once the generator of the
\* call with locals `me` has ended with `outcome`
Leave(me, outcome) ==
    IF me.op = "generate"
    THEN [me EXCEPT !.pc = "done", !.outcome = outcome, !.buffer = Empty]
    ELSE IF me.op = "stream_chat" THEN AfterStream(me, outcome)
    ELSE [me EXCEPT !.buffer = Empty, !.received = 0,
                    !.pc = IF insts[me.inst].topic = None
                           THEN "set_topic" ELSE "update_message"]

\* a generator that goes on without history when the retrieval fails
OnRetrievalFailure_Swallowed(me, i) ==
    [EnterGenerateText(me, i) EXCEPT !.history = <<>>, !.retrieval = "failed"]

\* line 175 when query_history raises (chat.py:200): the exception leaves
\* _generate_text through its finally block, before the chain is built
OnRetrievalFailure(me, i) ==
    Leave([me EXCEPT !.inst = i, !.buffer = Empty, !.received = 0,
                     !.yielded = <<>>, !.retrieval = "failed"], "retrieval_failed")

\* lines 171-177 with either end of the retrieval
PrepareChainInput(me, i, ok) ==
    IF ok THEN EnterGenerateText(me, i) ELSE OnRetrievalFailure(me, i)

\* a generator that flushes its partial buffer when the model fails
ChunksOnError_Flushed(buffer) == IF buffer = Empty THEN <<>> ELSE <<buffer>>

\* lines 179-194 when chain.astream raises: the exception skips line 190,
\* nothing more is yielded
ChunksOnError(buffer) == <<>>

\* a finally block that leaves the flag set
StopFlagReset_Set == TRUE

\* line 194: self._stop_generation = False
StopFlagReset == FALSE

\* where the caller of generate_response goes on once the generator has ended
\* with `outcome`: a plain caller is done; generate_answer runs its finally
\* block, i.e. _reflect_db_changes up to its first await (chat.py:106-119),
\* whatever the outcome (what its own consumer sees after the cleanup, the
\* end of the stream or the exception, changes nothing the server holds)
AfterGenerator(t, outcome) == Leave(task[t], outcome)

\* the flag after lines 171-177: line 177 sets it, or line 194 when the
\* retrieval has raised
FlagAfterPrepare(ok) == IF ok THEN FALSE ELSE StopFlagReset

\* line 194: finally: self._stop_generation = False; and, when the caller is
\* stream_chat, the stop_generation() of its own finally block
\* (threads/chat.py:89), with no await in between
Finally(t) ==
    insts' = [insts EXCEPT ![task[t].inst].stop_generation = StopFlagReset,
                           ![task[t].inst].stop_generating =
                               IF task[t].op = "stream_chat" THEN TRUE ELSE @]

\* generate_response on a chat system used directly (no orchestrator), by a
\* caller that issues its calls one after the other
StartGenerate(t) ==
    /\ MayStart(t)
    /\ \A u \in Tasks : task[u].pc \in {"idle", "done"}
    /\ \E ok \in BOOLEAN :
         /\ task' = [task EXCEPT ![t] =
                      PrepareChainInput([@ EXCEPT !.op = "generate", !.q = <<t>>], 1, ok)]
         /\ insts' = [insts EXCEPT ![1].stop_generation = FlagAfterPrepare(ok)]
    /\ UNCHANGED <<cache, freq, chats, messages, labelCalls, textLimit, fragLimit, assistants, vdbVars, featureVars, stopAt>>

\* lines 179-188: the model stream delivers one fragment of n characters
Fragment(t) ==
    /\ task[t].pc = "astream"
    /\ \E n \in 0..fragLimit :
        /\ task[t].received + n <= textLimit
        /\ LET me == task[t]
               chunk == Chars(t, me.received, me.received + n)
               buf == Accumulate(me.buffer, chunk)
               seen == stopAt[t]
           IN
           /\ stopAt' = [stopAt EXCEPT ![t] =
                           IF seen.called
                           THEN [seen EXCEPT !.checks = 1,
                                             !.atCheck = IF seen.checks = 0
                                                         THEN me.received ELSE @]
                           ELSE seen]
           /\ IF StopRequested(me.inst)
              THEN \* lines 180-183: the flag is seen; the fragment is dropped
                   IF HasRemainder(me.buffer)
                   THEN /\ task' = [task EXCEPT ![t].pc = "yield_stop",
                                                ![t].cancelled = TRUE,
                                                ![t].yielded = Append(@, me.buffer)]
                        /\ UNCHANGED insts
                   ELSE /\ task' = [task EXCEPT ![t] =
                                      AfterGenerator(t, "cancelled")]
                        /\ Finally(t)
              ELSE /\ UNCHANGED insts
                   /\ IF BufferFull(buf)
                      THEN task' = [task EXCEPT ![t].pc = "yield_full",
                                                ![t].buffer = buf,
                                                ![t].received = @ + n,
                                                ![t].yielded = Append(@, buf)]
                      ELSE task' = [task EXCEPT ![t].buffer = buf,
                                                ![t].received = @ + n]
    /\ UNCHANGED <<cache, freq, chats, messages, labelCalls, textLimit, fragLimit, assistants, vdbVars, featureVars>>

\* the consumer asks for the next item while the generator is suspended at a yield
Resume(t) ==
    /\ task[t].pc \in {"yield_full", "yield_stop", "yield_last"}
    /\ LET me == task[t] IN
       CASE me.pc = "yield_full" ->
              \* line 188: buffer = ""
              /\ task' = [task EXCEPT ![t].pc = "astream", ![t].buffer = Empty]
              /\ UNCHANGED insts
         [] me.pc = "yield_stop" ->
              \* line 183: break, then line 190 with the buffer as it was
              IF HasRemainder(me.buffer)
              THEN /\ task' = [task EXCEPT ![t].pc = "yield_last",
                                           ![t].yielded = Append(@, me.buffer)]
                   /\ UNCHANGED insts
              ELSE /\ task' = [task EXCEPT ![t] = AfterGenerator(t, "cancelled")]
                   /\ Finally(t)
         [] me.pc = "yield_last" ->
              /\ task' = [task EXCEPT ![t] =
                            AfterGenerator(t, IF me.cancelled THEN "cancelled"
                                              ELSE "completed")]
              /\ Finally(t)
    /\ UNCHANGED <<cache, freq, chats, messages, labelCalls, textLimit, fragLimit, assistants, vdbVars, featureVars, stopAt>>

\* lines 190-191: the model stream is exhausted
StreamEnd(t) ==
    /\ task[t].pc = "astream"
    /\ IF HasRemainder(task[t].buffer)
       THEN /\ task' = [task EXCEPT ![t].pc = "yield_last",
                                    ![t].yielded = Append(@, task[t].buffer)]
            /\ UNCHANGED insts
       ELSE /\ task' = [task EXCEPT ![t] = AfterGenerator(t, "completed")]
            /\ Finally(t)
    /\ UNCHANGED <<cache, freq, chats, messages, labelCalls, textLimit, fragLimit, assistants, vdbVars, featureVars, stopAt>>

\* the model stream raises: the exception leaves through the finally block
StreamError(t) ==
    /\ task[t].pc = "astream"
    /\ task' = [task EXCEPT ![t] =
                  Leave([task[t] EXCEPT !.yielded = @ \o ChunksOnError(task[t].buffer)],
                        "failed")]
    /\ Finally(t)
    /\ UNCHANGED <<cache, freq, chats, messages, labelCalls, textLimit, fragLimit, assistants, vdbVars, featureVars, stopAt>>

\* the consumer closes (or drops) the generator while it is suspended at a
\* yield: GeneratorExit is raised there and the finally blocks run
Close(t) ==
    /\ task[t].pc \in {"yield_full", "yield_stop", "yield_last"}
    /\ task' = [task EXCEPT ![t] = AfterGenerator(t, "closed")]
    /\ Finally(t)
    /\ UNCHANGED <<cache, freq, chats, messages, labelCalls, textLimit, fragLimit, assistants, vdbVars, featureVars, stopAt>>

\* lines 155-157: stop_generation() on object i
StopGeneration(i) ==
    /\ i \in 1..Len(insts)
    /\ ~insts[i].stop_generating
    /\ insts' = [insts EXCEPT ![i].stop_generating = TRUE]
    /\ stopAt' = [t \in Tasks |->
                    IF task[t].inst = i /\ Generating(t) /\ ~stopAt[t].called
                    THEN [called |-> TRUE, checks |-> 0, atCheck |-> 0]
                    ELSE stopAt[t]]
    /\ UNCHANGED <<task, cache, freq, chats, messages, labelCalls, textLimit, fragLimit, assistants, vdbVars, featureVars>>

\* ------------------------------------------- ExploreChat / ExploreChatMessage
\* get_messages_by_internal_id: the (question, answer) of the chat's rows,
\* in created_at order
RECURSIVE RowsOf(_, _)
RowsOf(rows, c) ==
    IF rows = <<>> THEN <<>>
    ELSE (IF Head(rows).chat = c
          THEN <<[q |-> Head(rows).q, a |-> Head(rows).a]>> ELSE <<>>)
         \o RowsOf(Tail(rows), c)

\* create_empty_chat_message: a row with empty question and answer
EmptyMessage(c) == [chat |-> c, q |-> Empty, a |-> Empty]

\* an update that writes the answer's last chunk instead of all of it
JoinAnswer_LastChunk(chunks) ==
    IF chunks = <<>> THEN Empty ELSE chunks[Len(chunks)]

\* chat.py:118: assistant_answer = "".join(machine_answer)
JoinAnswer(chunks) == Flatten(chunks)

\* update_chat_message: UPDATE ... WHERE chat_internal_id = c, which is
\* every row of the chat
UpdateChatMessage(rows, c, q, a) ==
    [k \in 1..Len(rows) |->
        IF rows[k].chat = c THEN [rows[k] EXCEPT !.q = q, !.a = a] ELSE rows[k]]

\* --------------------------------------------- cachetools.LFUCache(maxsize)
InCache(c) == cache[c] # NoInst
Cached == {c \in Chats : InCache(c)}

\* a cache that never evicts
Victims_None(c) == {0}

\* the keys popitem() may evict before c is stored: none when c is already
\* held or there is room, else a least frequently used key
Victims(c) ==
    IF InCache(c) \/ Cardinality(Cached) < CacheMaxSize THEN {0}
    ELSE {v \in Cached : \A w \in Cached : freq[v] <= freq[w]}

\* cache[c] = i, with v evicted (0: nobody)
CacheAfterSet(c, i, v) == [k \in Chats |-> IF k = c THEN i
                                           ELSE IF k = v THEN NoInst ELSE cache[k]]
\* the counters after cache[c] = i and then n uses of cache.get(c)
FreqAfterSet(c, v, n) == [k \in Chats |-> IF k = c THEN freq[k] + 1 + n
                                          ELSE IF k = v THEN 0 ELSE freq[k]]

\* ------------------------------------------------- PublicIDMixin (db/mixins.py)
\* get_by_public_id, lines 162-169: the process-wide Cache holds the chat's
\* internal id once a lookup of its public id has got past line 169
IdCached(c) ==
    \/ \E i \in 1..Len(insts) : insts[i].chat = c /\ insts[i].by_id
    \/ \E u \in Tasks : /\ task[u].chat = c /\ task[u].pc = "load_context"
                         /\ task[u].op # "start"

\* where a lookup goes from its Cache.get: to the query of line 166 on a miss;
\* on a hit line 164 returns get_by_internal_id's coroutine without awaiting
\* it, and the session decorator (db/context.py) decides whether the caller
\* gets the row or an object whose .id raises at chat.py:53
LookupOutcomes(c) == IF IdCached(c) THEN <<"load_chat", "done">> ELSE <<"load_chat">>

\* ------------------------------------------------- ResearchAssistantService
\* a registry that reconstructs on every access
LoadNeeded_Always(c) == TRUE

\* _load_chat_messages, service.py:149: `if chat_id in self.cache: return`
LoadNeeded(c) == ~InCache(c)

\* start_exploration up to its first await: ResearchAssistant.create() with
\* no chat id, i.e. ExploreChat.create_empty_chat()
StartExploration(t) ==
    /\ MayStart(t)
    /\ \E c \in Chats :
        /\ ~chats[c].exists /\ ~chats[c].deleted
        /\ \A d \in Chats : d < c => (chats[d].exists \/ chats[d].deleted)
        /\ chats' = [chats EXCEPT ![c] = [exists |-> TRUE, chat_topic |-> Empty,
                                          deleted |-> FALSE]]
        /\ task' = [task EXCEPT ![t].op = "start", ![t].chat = c, ![t].q = <<t>>,
                                ![t].pc = "load_context"]
    /\ UNCHANGED <<insts, cache, freq, messages, labelCalls, textLimit, fragLimit, assistants, vdbVars, featureVars, stopAt>>

\* ask_question(chat_id) up to its first await: _load_chat_messages returns
\* at once on a hit, and generate_answer starts on cache.get(chat_id); on a
\* miss ResearchAssistant.create looks the chat up by its public id.  The id
\* of every committed chat is known to clients (get_all_chats lists them)
AskQuestion(t) ==
    /\ MayStart(t)
    /\ \E c \in Chats :
        /\ chats[c].exists
        /\ IF LoadNeeded(c)
           THEN /\ \E k \in 1..Len(LookupOutcomes(c)) :
                     LET next == LookupOutcomes(c)[k] IN
                     task' = [task EXCEPT ![t].op = "ask", ![t].chat = c,
                                          ![t].q = <<t>>, ![t].pc = next,
                                          ![t].prev = cache[c],
                                          ![t].rebuilt = (next = "load_chat")]
                /\ UNCHANGED freq
           ELSE /\ task' = [task EXCEPT ![t].op = "ask", ![t].chat = c,
                                        ![t].q = <<t>>, ![t].pc = "create_message",
                                        ![t].prev = cache[c], ![t].inst = cache[c]]
                /\ freq' = [freq EXCEPT ![c] = @ + 1]
    /\ UNCHANGED <<insts, cache, chats, messages, labelCalls, textLimit, fragLimit, assistants, vdbVars, featureVars, stopAt>>

\* get_chat(chat_id): the messages are read, then _load_chat_messages runs as
\* a task of its own
GetChat(t) ==
    /\ MayStart(t)
    /\ \E c \in Chats :
        /\ chats[c].exists
        /\ task' = [task EXCEPT ![t].op = "get_chat", ![t].chat = c,
                                ![t].pc = "check_cache"]
    /\ UNCHANGED <<insts, cache, freq, chats, messages, labelCalls, textLimit, fragLimit, assistants, vdbVars, featureVars, stopAt>>

\* _load_chat_messages as get_chat's task: the check of line 149
CheckCache(t) ==
    /\ task[t].pc = "check_cache"
    /\ LET c == task[t].chat IN
       LET outs == IF LoadNeeded(c) THEN LookupOutcomes(c) ELSE <<"done">> IN
       \E k \in 1..Len(outs) : LET next == outs[k] IN
       task' = [task EXCEPT ![t].prev = cache[c], ![t].rebuilt = (next = "load_chat"),
                            ![t].inst = IF LoadNeeded(c) THEN NoInst ELSE cache[c],
                            ![t].pc = next]
    /\ UNCHANGED <<insts, cache, freq, chats, messages, labelCalls, textLimit, fragLimit, assistants, vdbVars, featureVars, stopAt>>

\* ResearchAssistant.create(chat_id), first await: get_by_public_id reads
\* the chat row (mixins.py:166-170)
LoadChat(t) ==
    /\ task[t].pc = "load_chat"
    /\ task' = [task EXCEPT ![t].pc = "load_context"]
    /\ UNCHANGED <<insts, cache, freq, chats, messages, labelCalls, textLimit, fragLimit, assistants, vdbVars, featureVars, stopAt>>

\* ResearchAssistant.create, second await: create_context reads the chat's
\* rows, the object is constructed over them; _load_chat_messages then
\* registers it (service.py:151) and ask_question takes cache.get(chat_id)
LoadContext(t) ==
    /\ task[t].pc = "load_context"
    /\ LET me == task[t]
           c == me.chat
           i == Len(insts) + 1
       IN
       /\ insts' = Append(insts, NewInst(c, RowsOf(messages, c), me.op # "start"))
       /\ IF me.op = "start"
          THEN /\ task' = [task EXCEPT ![t].inst = i, ![t].pc = "create_message"]
               /\ UNCHANGED <<cache, freq>>
          ELSE \E v \in Victims(c) :
               /\ cache' = CacheAfterSet(c, i, v)
               /\ freq' = FreqAfterSet(c, v, IF me.op = "ask" THEN 1 ELSE 0)
               /\ task' = [task EXCEPT ![t].inst = i,
                                       ![t].pc = IF me.op = "ask"
                                                 THEN "create_message" ELSE "done"]
    /\ UNCHANGED <<chats, messages, labelCalls, textLimit, fragLimit, assistants, vdbVars, featureVars, stopAt>>

\* delete_chat(chat_id) up to its first await, for an id no other request is
\* working on, whether a chat has that id or not
DeleteChat(t) ==
    /\ MayStart(t)
    /\ \E c \in Chats :
        /\ \A u \in Tasks : task[u].chat = c => task[u].pc \in {"idle", "done"}
        /\ task' = [task EXCEPT ![t].op = "delete", ![t].chat = c,
                                ![t].pc = "delete_row"]
    /\ UNCHANGED <<insts, cache, freq, chats, messages, labelCalls, textLimit, fragLimit, stopAt, assistants, vdbVars, featureVars>>

\* what ExploreChat.delete(chat_id) may come to (mixins.py:182-190).  A row
\* that exists is deleted and True returned, or the lookup or the database
\* raises.  When no row has the id, the query of line 166 gives None and
\* line 169 raises on None.id; only when the process-wide Cache still knows
\* the id (of a chat deleted since) can line 164 hand back a falsy result
\* and line 190 return False
DeleteOutcomes(c) ==
    IF chats[c].exists THEN <<"True", "raised">>
    ELSE IF IdCached(c) THEN <<"False", "raised">>
    ELSE <<"raised">>

\* service.py:97: deleted = await ExploreChat.delete(chat_id); an exception
\* ends delete_chat there
DeleteRow(t) ==
    /\ task[t].pc = "delete_row"
    /\ LET c == task[t].chat IN
       \E k \in 1..Len(DeleteOutcomes(c)) :
        LET deleted == DeleteOutcomes(c)[k] IN
        /\ chats' = IF deleted = "True"
                    THEN [chats EXCEPT ![c].exists = FALSE, ![c].deleted = TRUE]
                    ELSE chats
        /\ task' = [task EXCEPT ![t] =
                      IF deleted = "raised"
                      THEN [Returned(@) EXCEPT !.outcome = "raised"]
                      ELSE [@ EXCEPT !.pc = "delete_entry", !.outcome = deleted]]
    /\ UNCHANGED <<insts, cache, freq, messages, labelCalls, textLimit, fragLimit, stopAt, assistants, vdbVars, featureVars>>

\* service.py:98-100: `if chat_id in self.cache: del self.cache[chat_id]`,
\* then `return deleted`
DeleteEntry(t) ==
    /\ task[t].pc = "delete_entry"
    /\ cache' = [cache EXCEPT ![task[t].chat] = NoInst]
    /\ freq' = [freq EXCEPT ![task[t].chat] = 0]
    /\ task' = [task EXCEPT ![t] = [Returned(@) EXCEPT !.outcome = task[t].outcome]]
    /\ UNCHANGED <<insts, chats, messages, labelCalls, textLimit, fragLimit, stopAt, assistants, vdbVars, featureVars>>

\* generate_answer, chat.py:94-98: the empty message is inserted, then
\* generate_response and _generate_text run up to the wait for the model, or
\* to the failure of the retrieval
CreateMessage(t) ==
    /\ task[t].pc = "create_message"
    /\ LET me == task[t] IN
       /\ messages' = Append(messages, EmptyMessage(me.chat))
       /\ \E ok \in BOOLEAN :
            /\ task' = [task EXCEPT ![t] =
                          PrepareChainInput([me EXCEPT !.msg = Len(messages) + 1],
                                            me.inst, ok)]
            /\ insts' = [insts EXCEPT ![me.inst].stop_generation = FlagAfterPrepare(ok)]
    /\ UNCHANGED <<cache, freq, chats, labelCalls, textLimit, fragLimit, assistants, vdbVars, featureVars, stopAt>>

\* _set_chat_topic, chat.py:144-146: the small model answers with a label
\* for the question, and self.topic takes it
SetChatTopic(t) ==
    /\ task[t].pc = "set_topic"
    /\ insts' = [insts EXCEPT ![task[t].inst].topic = task[t].q]
    /\ labelCalls' = [labelCalls EXCEPT ![task[t].chat] = @ + 1]
    /\ task' = [task EXCEPT ![t].pc = "write_topic"]
    /\ UNCHANGED <<cache, freq, chats, messages, textLimit, fragLimit, assistants, vdbVars, featureVars, stopAt>>

\* _set_chat_topic, chat.py:147: ExploreChat.update_chat_topic with that label
WriteChatTopic(t) ==
    /\ task[t].pc = "write_topic"
    /\ chats' = [chats EXCEPT ![task[t].chat].chat_topic = task[t].q]
    /\ task' = [task EXCEPT ![t].pc = "update_message"]
    /\ UNCHANGED <<insts, cache, freq, messages, labelCalls, textLimit, fragLimit, assistants, vdbVars, featureVars, stopAt>>

\* _reflect_db_changes, chat.py:118-125
ReflectUpdate(t) ==
    /\ task[t].pc = "update_message"
    /\ messages' = UpdateChatMessage(messages, task[t].chat, task[t].q,
                                     JoinAnswer(task[t].yielded))
    /\ task' = [task EXCEPT ![t] = Returned(@)]
    /\ UNCHANGED <<insts, cache, freq, chats, labelCalls, textLimit, fragLimit, assistants, vdbVars, featureVars, stopAt>>

\* ------------------------------------------------------ VectorDB (store.py)
\* the values a caller may pass where a string is expected, as <<type, value>>:
\* the i-th non-empty string, "", None, and the number 42
Str(i) == <<"str", i>>
EmptyStr == <<"str", 0>>
Falsy == <<"NoneType", 0>>
NonStr == <<"int", 42>>
IsStr(x) == x[1] = "str"                \* isinstance(x, str)
Truthy(x) == x[2] # 0                   \* bool(x)
Id(x) == x[2]
\* the proper strings 1..n, as a list
Strings(n) == [i \in 1..n |-> Str(i)]
\* the strings S and the values that are no proper string
Args(S) == S \o <<EmptyStr, Falsy, NonStr>>

\* a validation that forgets the type test
Invalid_EmptyOnly(x) == ~Truthy(x)

\* lines 73, 100, 102, 120: `not x or not isinstance(x, str)`
Invalid(x) == ~Truthy(x) \/ ~IsStr(x)

\* the texts the vector store may hold: its seed, the document the memory
\* saves of an interaction ("input: ... output: ..."), "Human: ..." and
\* "AI: ...", the document the memory saves of a message, and the message
Kinds == <<"seed", "context", "human", "ai", "note", "message">>

\* a text of the vector store: what it is and the build of the store it was
\* put in; the store is one place per kind of text, taken or not
Text(g, kind) == [in |-> TRUE, gen |-> g, kind |-> kind]
NoText(kind) == [in |-> FALSE, gen |-> 0, kind |-> kind]
EmptyIndex == [k \in 1..Len(Kinds) |-> NoText(Kinds[k])]

\* an add that builds the store anew over the added texts
Put_Replacing(ix, kinds, g) ==
    [k \in 1..Len(ix) |-> IF ix[k].kind \in kinds THEN Text(g, ix[k].kind)
                                                 ELSE NoText(ix[k].kind)]

\* vector_store.add_texts / add_documents: the texts of these kinds are in
\* the store afterwards
Put(ix, kinds, g) ==
    [k \in 1..Len(ix) |-> IF ix[k].kind \in kinds THEN Text(g, ix[k].kind) ELSE ix[k]]

Held(ix) == {k \in 1..Len(ix) : ix[k].in}

\* an index that keeps its former texts when it is seeded anew
SeedIndex_Kept(ix, seeded, g) == IF seeded THEN Put(ix, {"seed"}, g) ELSE ix

\* _initialize_vector_store, lines 49-53: FAISS.from_texts over the seed
\* text, or over no text when the seed is empty
SeedIndex(ix, seeded, g) == IF seeded THEN Put(EmptyIndex, {"seed"}, g) ELSE EmptyIndex

\* the retriever, lines 55-57 and 81-88: the search_k texts of the store
\* nearest to the query; which ones they are is the embedding's business
Retrievals(ix) ==
    LET n == IF Cardinality(Held(ix)) < SearchK THEN Cardinality(Held(ix)) ELSE SearchK
        Docs(c) == LET Chosen(x) == x.in /\ \E k \in c : ix[k].kind = x.kind
                   IN SelectSeq(ix, Chosen)
    IN {Docs(c) : c \in {c \in SUBSET Held(ix) : Cardinality(c) = n}}

\* cachetools.TTLCache(maxsize, ttl): an entry is [q, result, expires]
Expired(e) == ~(now < e.expires)
Present(c, q) == \E k \in 1..Len(c) : c[k].q = q
EntryOf(c, q) == c[CHOOSE k \in 1..Len(c) : c[k].q = q]

\* a cache whose entries never expire
InQueryCache_Forever(q) == Present(qcache, q)

\* a cache that is never hit
InQueryCache_Never(q) == FALSE

\* line 77: `query in self.query_cache`
InQueryCache(q) == Present(qcache, q) /\ ~Expired(EntryOf(qcache, q))

\* line 78: self.query_cache[query]
CachedResult(q) == EntryOf(qcache, q).result

Unexpired(e) == ~Expired(e)
\* line 90: self.query_cache[query] = result; the expired entries go first,
\* then the oldest one if there is no room
QueryCacheSet(c, q, r) ==
    LET live == SelectSeq(c, Unexpired)
        NotQ(e) == e.q # q
        others == SelectSeq(live, NotQ)
        room == IF Len(others) >= QueryCacheMaxSize THEN Tail(others) ELSE others
    IN Append(room, [q |-> q, result |-> r, expires |-> now + TTL])

\* a query that stores an (empty) result before it has retrieved one
CacheOnFailure_Written(c, q) == QueryCacheSet(c, q, <<>>)

\* lines 81-90 when line 82 or 87 raises: line 90 is not reached
CacheOnFailure(c, q) == c

\* a clear that leaves the query cache alone
PurgedCache_Kept(c) == c

\* line 133: self.query_cache.clear()
PurgedCache(c) == <<>>

\* what is on record of a call: retrieved tells whether the retriever was
\* invoked, gen the build of the store at the call, expired whether the cache
\* still held an entry for the query that had outlived its time
NoCall == [op |-> "none", args |-> <<>>, outcome |-> "none", result |-> <<>>,
           retrieved |-> FALSE, gen |-> 0, expired |-> FALSE]
Call(op, args, outcome, result, retrieved) ==
    [op |-> op, args |-> args, outcome |-> outcome, result |-> result,
     retrieved |-> retrieved, gen |-> epoch,
     expired |-> /\ op = "query" /\ retrieved
                 /\ Present(qcache, Id(args[1]))
                 /\ Expired(EntryOf(qcache, Id(args[1])))]

NoFetch == [done |-> FALSE, result |-> <<>>, at |-> 0, others |-> 0]
\* the retrievals on record after one for q has succeeded with result r
FetchedNow(q, r) ==
    [k \in DOMAIN lastFetch |->
        IF k = q THEN [done |-> TRUE, result |-> r, at |-> now, others |-> 0]
        ELSE IF lastFetch[k].done /\ lastFetch[k].others < QueryCacheMaxSize
             THEN [lastFetch[k] EXCEPT !.others = @ + 1]
             ELSE lastFetch[k]]

\* query_history(x), lines 67-91; it holds no await, so it is one step
QueryHistoryCall(x) ==
    /\ IF Invalid(x)
       THEN /\ call' = Call("query", <<x>>, "ValueError", <<>>, FALSE)
            /\ UNCHANGED <<qcache, lastFetch>>
       ELSE IF InQueryCache(Id(x))
       THEN /\ call' = Call("query", <<x>>, "ok", CachedResult(Id(x)), FALSE)
            /\ UNCHANGED <<qcache, lastFetch>>
       ELSE \E ok \in BOOLEAN : \E r \in Retrievals(index) :
            IF ok
            THEN /\ call' = Call("query", <<x>>, "ok", r, TRUE)
                 /\ qcache' = QueryCacheSet(qcache, Id(x), r)
                 /\ lastFetch' = FetchedNow(Id(x), r)
            ELSE /\ call' = Call("query", <<x>>, "RetrievalFailure", <<>>, TRUE)
                 /\ qcache' = CacheOnFailure(qcache, Id(x))
                 /\ UNCHANGED lastFetch
    /\ UNCHANGED <<index, now, epoch, adds, appVars, featureVars>>

Query(S) == \E k \in 1..Len(S) : QueryHistoryCall(S[k])

\* an add_interaction or add_message call in progress: where it is, what it
\* adds, and the build of the store its memory object belongs to
IdleAdd == [pc |-> "idle", kind |-> "none", gen |-> 0]
FreeSlot(s) == adds[s].pc = "idle" /\ \A r \in DOMAIN adds : r < s => adds[r].pc # "idle"

\* lines 105-106 and 124-125: memory.asave_context puts one document made of
\* the input and the output into the store the memory was built over, which
\* is the current store only if no clear() came in between
MemoryDocs(me) ==
    IF me.gen # epoch THEN {}
    ELSE IF me.kind = "interaction" THEN {"context"} ELSE {"note"}

\* lines 111-114: "Human: ..." and "AI: ..."; line 126: the role-tagged text
AddedTexts(me) ==
    IF me.kind = "interaction"
    THEN {"human", "ai"}
    ELSE {"message"}

\* add_interaction(h, a), lines 100-106: the two checks, then the memory's
\* asave_context is awaited
AddInteraction(S) ==
    /\ \E i \in 1..Len(S), j \in 1..Len(S) : LET h == S[i]  a == S[j] IN
        IF Invalid(h) \/ Invalid(a)
        THEN /\ call' = Call("add_interaction", <<h, a>>, "ValueError", <<>>, FALSE)
             /\ UNCHANGED adds
        ELSE \E s \in DOMAIN adds :
             /\ FreeSlot(s)
             /\ call' = Call("add_interaction", <<h, a>>, "started", <<>>, FALSE)
             /\ adds' = [adds EXCEPT ![s] = [pc |-> "saving", kind |-> "interaction",
                                            gen |-> epoch]]
    /\ UNCHANGED <<index, qcache, now, epoch, lastFetch, appVars, featureVars>>

\* add_message(message, role), lines 120-125
AddMessage(S) ==
    /\ \E i \in 1..Len(S) : LET m == S[i] IN
        IF Invalid(m)
        THEN /\ call' = Call("add_message", <<m>>, "ValueError", <<>>, FALSE)
             /\ UNCHANGED adds
        ELSE \E s \in DOMAIN adds :
             /\ FreeSlot(s)
             /\ call' = Call("add_message", <<m>>, "started", <<>>, FALSE)
             /\ adds' = [adds EXCEPT ![s] = [pc |-> "saving", kind |-> "message",
                                            gen |-> epoch]]
    /\ UNCHANGED <<index, qcache, now, epoch, lastFetch, appVars, featureVars>>

\* asave_context returns (or raises: the embedding call failed).  add_message
\* goes on to line 126 at once; add_interaction awaits asyncio.sleep(0) first
SaveContext(s) ==
    /\ adds[s].pc = "saving"
    /\ \E ok \in BOOLEAN :
        LET me == adds[s] IN
        IF ~ok
        THEN adds' = [adds EXCEPT ![s] = IdleAdd] /\ UNCHANGED index
        ELSE IF me.kind = "interaction"
        THEN /\ adds' = [adds EXCEPT ![s].pc = "sleeping"]
             /\ index' = Put(index, MemoryDocs(me), epoch)
        ELSE /\ adds' = [adds EXCEPT ![s] = IdleAdd]
             /\ index' = Put(index, MemoryDocs(me) \cup AddedTexts(me), epoch)
    /\ UNCHANGED <<qcache, now, epoch, call, lastFetch, appVars, featureVars>>

\* add_interaction, lines 110-114: after the sleep, add_texts on the store
\* that self.vector_store names now
AddTexts(s) ==
    /\ adds[s].pc = "sleeping"
    /\ \E ok \in BOOLEAN :
        /\ index' = IF ok THEN Put(index, AddedTexts(adds[s]), epoch) ELSE index
        /\ adds' = [adds EXCEPT ![s] = IdleAdd]
    /\ UNCHANGED <<qcache, now, epoch, call, lastFetch, appVars, featureVars>>

\* clear(initial_text), lines 128-133; no await, so one step.  FAISS.from_texts
\* may raise (the embedding call, or the library on an empty list of texts),
\* and then nothing was assigned
Clear ==
    /\ \E seeded \in BOOLEAN, ok \in BOOLEAN :
        IF ok
        THEN /\ epoch < MaxClears
             /\ index' = SeedIndex(index, seeded, epoch + 1)
             /\ epoch' = epoch + 1
             /\ qcache' = PurgedCache(qcache)
             /\ lastFetch' = [q \in DOMAIN lastFetch |-> NoFetch]
             /\ call' = [Call("clear", <<>>, "ok", <<>>, FALSE) EXCEPT !.gen = epoch + 1]
        ELSE /\ call' = Call("clear", <<>>, "failed", <<>>, FALSE)
             /\ UNCHANGED <<index, epoch, qcache, lastFetch>>
    /\ UNCHANGED <<now, adds, appVars, featureVars>>

\* the timer of the TTL cache advances
Tick ==
    /\ now < MaxClock
    /\ now' = now + 1
    /\ UNCHANGED <<index, qcache, epoch, adds, call, lastFetch, appVars, featureVars>>

\* --------------------------------------- ThreadService (threads/service.py)
\* Thread.__init__, service.py:34-49: a Thread object made for thread
\* thread_pid; queue is the number of items content_queue holds
Thread(thread_pid) == [thread_pid |-> thread_pid, current_idx |-> 0, locked |-> FALSE,
                       is_generating |-> FALSE, queue |-> 0]

\* self.threads[thread_id]: every registration (lines 125, 135) stores a
\* Thread made on the spot, so the registry holds the latest object made for
\* the id; 0 stands for `thread_id not in self.threads`
Registered(id) ==
    LET made == {o \in 1..Len(threads) : threads[o].thread_pid = id}
    IN IF made = {} THEN 0 ELSE CHOOSE o \in made : \A q \in made : q <= o

\* line 69: `async with self.generation_lock` goes on when nobody holds it
LockFree(o) == ~threads[o].locked

\* a finally that leaves the lock taken
Released_LockKept(thr) == [thr EXCEPT !.is_generating = FALSE, !.queue = 0]

\* a finally that releases the lock only
Released_LockOnly(thr) == [thr EXCEPT !.locked = FALSE]

\* the finally of lines 95-99 and the end of the `async with` of line 69:
\* is_generating is cleared, content_queue emptied, the lock released, with
\* no await in between
Released(thr) == [thr EXCEPT !.locked = FALSE, !.is_generating = FALSE, !.queue = 0]

\* the locals of a generate_content call: thread is the id asked for, obj
\* the Thread object the call works on, waited tells that the lock was taken
\* when the call came to line 69, i counts the rounds of the content
\* stream, produced the items the content stream has yielded, yielded the
\* responses the call has yielded
IdleCall == [pc |-> "idle", thread |-> 0, obj |-> 0, waited |-> FALSE, i |-> 0,
             produced |-> 0, yielded |-> 0, outcome |-> "none"]

\* generate_public_id (mixins.py:143-150): a string, "<prefix>_<uuid>"
PublicId(n) == Str(n)

\* pydantic's validation of a field declared int (service.py:25 content_id,
\* service.py:29 thread_id): a string that spells no number is refused
IsInt(x) == x[1] = "int"

\* create_thread, lines 197-203 and 125-127: the row is inserted, the Thread
\* object registered, and generate_content finds it at line 166
CreateThread(t) ==
    /\ gcalls[t].pc = "idle" /\ \A u \in Tasks : u < t => gcalls[u].pc # "idle"
    /\ \E id \in 1..MaxThreads :
        /\ ~contents[id].exists
        /\ \A d \in 1..MaxThreads : d < id => contents[d].exists
        /\ contents' = [contents EXCEPT ![id] = [exists |-> TRUE, cnt |-> 0]]
        /\ threads' = Append(threads, Thread(id))
        /\ gcalls' = [gcalls EXCEPT ![t] = [IdleCall EXCEPT !.pc = "locking", !.thread = id,
                                                            !.obj = Len(threads) + 1]]
    /\ UNCHANGED <<topicGen, roadmapVars, content_chats, appVars, vdbVars>>

\* generate_content(thread_generate), lines 162-170: `thread_id not in
\* self.threads` sends the call to __load_thread, else to the Thread held
GenerateContent(t) ==
    /\ gcalls[t].pc = "idle" /\ \A u \in Tasks : u < t => gcalls[u].pc # "idle"
    /\ \E id \in 1..MaxThreads :
        gcalls' = [gcalls EXCEPT ![t] =
                     [IdleCall EXCEPT !.thread = id, !.obj = Registered(id),
                                      !.waited = /\ Registered(id) # 0
                                                 /\ threads[Registered(id)].locked,
                                      !.pc = IF Registered(id) # 0 THEN "locking"
                                             ELSE "load_thread"]]
    /\ UNCHANGED <<threads, contents, topicGen, roadmapVars, content_chats, appVars, vdbVars>>

\* lines 167-168 and 129-140: __load_thread reads the thread and its
\* contents and registers a Thread over them, in place of the one another
\* call may have registered meanwhile (or raises when no row has the id:
\* models.py:53-54), and generate_content returns
LoadThread(t) ==
    /\ gcalls[t].pc = "load_thread"
    /\ LET id == gcalls[t].thread IN
       IF contents[id].exists
       THEN /\ threads' = Append(threads, Thread(id))
            /\ gcalls' = [gcalls EXCEPT ![t].pc = "done", ![t].outcome = "returned"]
       ELSE /\ gcalls' = [gcalls EXCEPT ![t].pc = "done", ![t].outcome = "raised"]
            /\ UNCHANGED threads
    /\ UNCHANGED <<contents, topicGen, roadmapVars, content_chats, appVars, vdbVars>>

\* Thread.generate_content, lines 69-80: the lock is taken. A call that
\* finds is_generating set waits on content_queue.get() with the lock held
\* (lines 70-76); the others set it and start the content stream
AcquireLock(t) ==
    /\ gcalls[t].pc = "locking"
    /\ LockFree(gcalls[t].obj)
    /\ threads' = [threads EXCEPT ![gcalls[t].obj].locked = TRUE,
                                  ![gcalls[t].obj].is_generating = TRUE]
    /\ gcalls' = [gcalls EXCEPT ![t].pc = IF threads[gcalls[t].obj].is_generating
                                          THEN "queue_get" ELSE "stream"]
    /\ UNCHANGED <<contents, topicGen, roadmapVars, content_chats, appVars, vdbVars>>

\* generate_content_stream (llm.py:133-156) and lines 80-83: one round of
\* the batch, whose model call yields an item or fails and is skipped; after
\* the last round the stream ends, and lines 95-99 run: is_generating is
\* cleared, content_queue emptied and the lock released
ContentStream(t) ==
    /\ gcalls[t].pc = "stream"
    /\ LET me == gcalls[t]  o == me.obj IN
       IF me.i < BatchSize
       THEN \E ok \in BOOLEAN :
            IF ok
            THEN /\ threads' = [threads EXCEPT ![o].current_idx = @ + 1]
                 /\ gcalls' = [gcalls EXCEPT ![t].i = @ + 1, ![t].produced = @ + 1,
                                             ![t].pc = "create_content"]
            ELSE /\ gcalls' = [gcalls EXCEPT ![t].i = @ + 1]
                 /\ UNCHANGED threads
       ELSE /\ threads' = [threads EXCEPT ![o] = Released(@)]
            /\ gcalls' = [gcalls EXCEPT ![t].pc = "done", ![t].outcome = "exhausted"]
    /\ UNCHANGED <<contents, topicGen, roadmapVars, content_chats, appVars, vdbVars>>

\* lines 84-94 and 171-175: ThreadContent.create inserts the row and returns
\* its public id; Content(content_id=...) and then
\* ThreadGenerateResponse(thread_id=...) are built and validated; the
\* content is queued and the response yielded, or the validation error
\* leaves through the finally of lines 95-99
CreateContentModel(t) ==
    /\ gcalls[t].pc = "create_content"
    /\ LET me == gcalls[t]  id == me.thread  o == me.obj
           content_id == PublicId(contents[id].cnt + 1)
       IN
       /\ contents' = [contents EXCEPT ![id].cnt = @ + 1]
       /\ IF IsInt(content_id) /\ IsInt(PublicId(id))
          THEN /\ gcalls' = [gcalls EXCEPT ![t].yielded = @ + 1, ![t].pc = "stream"]
               /\ threads' = [threads EXCEPT ![o].queue = @ + 1]
          ELSE /\ gcalls' = [gcalls EXCEPT ![t].pc = "done", ![t].outcome = "raised"]
               /\ threads' = [threads EXCEPT ![o] = Released(@)]
    /\ UNCHANGED <<topicGen, roadmapVars, content_chats, appVars, vdbVars>>

\* ------------------------------------------- ThreadIDChat (threads/chat.py)
\* stream_chat(options), lines 68-80: contents = [], and generate_response
\* runs up to its wait for the model stream, or its retrieval raises and the
\* finally block of line 88 is entered at once
StreamChat(t) ==
    /\ MayStart(t)
    /\ \E ok \in BOOLEAN :
         /\ task' = [task EXCEPT ![t] =
                      PrepareChainInput([@ EXCEPT !.op = "stream_chat", !.q = <<t>>], 1, ok)]
         /\ insts' = [insts EXCEPT ![1].stop_generation = FlagAfterPrepare(ok),
                                   ![1].stop_generating = IF ok THEN @ ELSE TRUE]
    /\ UNCHANGED <<cache, freq, chats, messages, labelCalls, textLimit, fragLimit, assistants, vdbVars, featureVars, stopAt>>

\* lines 90-94 and ThreadContentChat.create_chat (threads/models.py:159-180):
\* one row with the question asked and "".join(contents)
CreateChat(t) ==
    /\ task[t].pc = "create_chat"
    /\ content_chats' = Append(content_chats,
                               [call |-> t, user_question |-> task[t].q,
                                ai_answer |-> Flatten(task[t].yielded)])
    /\ task' = [task EXCEPT ![t].pc = "done"]
    /\ UNCHANGED <<insts, cache, freq, chats, messages, labelCalls, textLimit, fragLimit,
                   assistants, stopAt, vdbVars, threads, contents, gcalls, topicGen,
                   roadmapVars>>

\* ------------------------------------------- RoadmapService (features/roadmap)
\* RoadmapNodeStatus (models.py:19-23)
NOT_STARTED == 0
IN_PROGRESS == 1
COMPLETED == 2

\* no roadmap operation has run yet
IdleRoadmapCall == [pc |-> "idle", op |-> "none", roadmap |-> 0, n |-> 0,
                    total_nodes |-> 0, outcome |-> "none"]

\* create_roadmap_with_nodes, generator.py:155-161: the model has answered
\* with a structure of n nodes, n >= 1 (_validate_structure, lines 116-118),
\* and Roadmap.create (models.py:54-65) inserts the row, whose counters take
\* the column defaults (models.py:40-41)
CreateRoadmap ==
    /\ rcall.pc = "idle" /\ Len(roadmaps) < MaxRoadmaps
    /\ \E n \in 1..MaxNodes :
        rcall' = [IdleRoadmapCall EXCEPT !.pc = "create_nodes", !.op = "create",
                                         !.roadmap = Len(roadmaps) + 1, !.n = n]
    /\ roadmaps' = Append(roadmaps, [total_nodes |-> 0, completed_nodes |-> 0,
                                     nodes |-> <<>>])
    /\ UNCHANGED <<threads, contents, gcalls, topicGen, content_chats, appVars, vdbVars>>

\* _create_nodes_from_data, generator.py:190-217: one RoadmapNode.create
\* (models.py:163-185), whose status takes the column default
CreateNode ==
    /\ rcall.pc = "create_nodes"
    /\ roadmaps' = [roadmaps EXCEPT ![rcall.roadmap].nodes = Append(@, NOT_STARTED)]
    /\ rcall' = [rcall EXCEPT !.pc = IF Len(roadmaps[rcall.roadmap].nodes) + 1 = rcall.n
                                     THEN "count" ELSE "create_nodes"]
    /\ UNCHANGED <<threads, contents, gcalls, topicGen, content_chats, appVars, vdbVars>>

\* generator.py:170-173: total_nodes is set on the Roadmap object that
\* Roadmap.create returned, after the session that inserted it was committed
\* and closed (config.py:56-65); nothing commits the object again
CountNodes ==
    /\ rcall.pc = "count"
    /\ rcall' = [rcall EXCEPT !.pc = "idle", !.outcome = "returned",
                              !.total_nodes = Len(roadmaps[rcall.roadmap].nodes)]
    /\ UNCHANGED <<roadmaps, threads, contents, gcalls, topicGen, content_chats, appVars, vdbVars>>

\* update_node_status, service.py:120-124, and RoadmapNode.update_status,
\* models.py:226-231: a status outside the three raises ValueError; an
\* unknown node id (k = 0) returns None; else the status is committed
UpdateNodeStatus ==
    /\ rcall.pc = "idle"
    /\ \E r \in 1..Len(roadmaps) : \E k \in 0..Len(roadmaps[r].nodes) : \E status \in 0..3 :
        LET me == [IdleRoadmapCall EXCEPT !.op = "update", !.roadmap = r, !.n = status]
        IN IF status \notin {NOT_STARTED, IN_PROGRESS, COMPLETED}
           THEN /\ rcall' = [me EXCEPT !.outcome = "ValueError"]
                /\ UNCHANGED roadmaps
           ELSE IF k = 0
           THEN /\ rcall' = [me EXCEPT !.outcome = "None"]
                /\ UNCHANGED roadmaps
           ELSE /\ rcall' = [me EXCEPT !.pc = "update_progress"]
                /\ roadmaps' = [roadmaps EXCEPT ![r].nodes[k] = status]
    /\ UNCHANGED <<threads, contents, gcalls, topicGen, content_chats, appVars, vdbVars>>

\* Roadmap.update_progress, models.py:87-100, called at models.py:233-235
UpdateProgress ==
    /\ rcall.pc = "update_progress"
    /\ LET nodes == roadmaps[rcall.roadmap].nodes
           total == Len(nodes)
           completed == Cardinality({k \in 1..Len(nodes) : nodes[k] = COMPLETED})
       IN roadmaps' = [roadmaps EXCEPT ![rcall.roadmap].total_nodes = total,
                                       ![rcall.roadmap].completed_nodes = completed]
    /\ rcall' = [rcall EXCEPT !.pc = "idle", !.outcome = "returned"]
    /\ UNCHANGED <<threads, contents, gcalls, topicGen, content_chats, appVars, vdbVars>>

\* ----------------------------------------- TopicsGenerator (topics/topics.py)
\* line 13 (a set in the code; nothing below depends on its order)
VALID_DIFFICULTIES == <<"Beginner", "Intermediate", "Advanced">>

\* what the model may stream: the JSON object of a block, of a valid level or
\* not, and the delimiter "###DIFFICULTY_END###"
Pieces == <<<<"json", "Beginner">>, <<"json", "Intermediate">>, <<"json", "Advanced">>,
            <<"json", "Expert">>, <<"end", "">>>>

\* parse_chunk, lines 171-202: None (here <<>>) without a delimiter, or when
\* the text before the first delimiter is not one JSON object (decode_json
\* raises ValueError on none and on more than one), or when its level is not
\* valid; else the dictionary {difficulty: topics}, as a list of its items
ParseChunk(chunk) ==
    LET ends == {k \in 1..Len(chunk) : chunk[k][1] = "end"} IN
    IF ends = {} THEN <<>>
    ELSE LET json_str == SubSeq(chunk, 1, (CHOOSE k \in ends : \A j \in ends : k <= j) - 1)
         IN IF Len(json_str) # 1 THEN <<>>
            ELSE IF \A k \in 1..Len(VALID_DIFFICULTIES) :
                       VALID_DIFFICULTIES[k] # json_str[1][2]
                 THEN <<>>
                 ELSE <<<<json_str[1][2], "topics">>>>

\* lines 236-238 and 288-289: every valid level is a key of the dictionary
\* (else dict[difficulty] raises KeyError)
HasEveryLevel(dict) ==
    \A k \in 1..Len(VALID_DIFFICULTIES) :
        \E i \in 1..Len(dict) : dict[i][1] = VALID_DIFFICULTIES[k]

\* generate_topics(path), lines 229-235, up to the wait for the model
GenerateTopics ==
    /\ topicGen.pc = "idle"
    /\ \E n \in 0..1 :
        topicGen' = IF n = 0
                    THEN [topicGen EXCEPT !.pc = "done", !.outcome = "ValueError"]
                    ELSE [topicGen EXCEPT !.pc = "astream", !.path = n]
    /\ UNCHANGED <<threads, contents, gcalls, roadmapVars, content_chats, appVars, vdbVars>>

\* _stream_topic_generation, lines 329-338, and the loop body of
\* generate_topics, lines 236-240: a piece is added to the buffer; when the
\* buffer parses, it is cut behind its first delimiter and the block handed
\* to generate_topics, which copies every valid level from it and yields it
StreamPiece ==
    /\ topicGen.pc = "astream"
    /\ topicGen.sent < MaxPieces
    /\ \E k \in 1..Len(Pieces) :
        LET buffer == Append(topicGen.buffer, Pieces[k])
            parsed == ParseChunk(buffer)
            first == CHOOSE i \in 1..Len(buffer) :
                        /\ buffer[i][1] = "end"
                        /\ \A j \in 1..(i - 1) : buffer[j][1] # "end"
            me == [topicGen EXCEPT !.sent = @ + 1, !.stream = Append(@, Pieces[k])]
        IN
        topicGen' =
            IF parsed = <<>> THEN [me EXCEPT !.buffer = buffer]
            ELSE LET got == [me EXCEPT !.buffer = SubSeq(buffer, first + 1, Len(buffer)),
                                       !.parsed = Append(@, parsed)]
                 IN IF HasEveryLevel(parsed)
                    THEN [got EXCEPT !.topics_dict = parsed, !.yielded = Append(@, parsed)]
                    ELSE [got EXCEPT !.pc = "done", !.outcome = "KeyError"]
    /\ UNCHANGED <<threads, contents, gcalls, roadmapVars, content_chats, appVars, vdbVars>>

\* lines 242-243: the stream is exhausted; _save_topic inserts the topic,
\* then _save_subtopics (lines 288-305) reads every valid level of the
\* dictionary and inserts the subtopics
TopicsStreamEnd ==
    /\ topicGen.pc = "astream"
    /\ topicGen' = IF HasEveryLevel(topicGen.topics_dict)
                   THEN [topicGen EXCEPT !.pc = "done", !.outcome = "saved",
                                         !.topics = @ + 1, !.subtopics = @ + 1]
                   ELSE [topicGen EXCEPT !.pc = "done", !.outcome = "KeyError",
                                         !.topics = @ + 1]
    /\ UNCHANGED <<threads, contents, gcalls, roadmapVars, content_chats, appVars, vdbVars>>

\* ------------------------------------------------------------ specifications
InitTasks ==
    /\ task = [t \in Tasks |-> IdleTask]
    /\ stopAt = [t \in Tasks |-> NoStop]

\* a VectorDB nobody has called yet, over an empty store
InitVectorIdle ==
    /\ index = EmptyIndex
    /\ qcache = <<>>
    /\ now = 0
    /\ epoch = 0
    /\ adds = <<>>
    /\ call = NoCall
    /\ lastFetch = <<>>

\* the thread service and the topics generator after a start of the server:
\* no Thread is held, the database holds thread 1 with one content, and no
\* call is in progress
InitFeatures ==
    /\ threads = <<>>
    /\ contents = [id \in 1..MaxThreads |-> [exists |-> id = 1, cnt |-> IF id = 1 THEN 1 ELSE 0]]
    /\ gcalls = [t \in Tasks |-> IdleCall]
    /\ roadmaps = <<>>
    /\ rcall = IdleRoadmapCall
    /\ content_chats = <<>>
    /\ topicGen = [pc |-> "idle", path |-> 0, sent |-> 0, stream |-> <<>>, buffer |-> <<>>,
                   parsed |-> <<>>, yielded |-> <<>>, topics_dict |-> <<>>,
                   topics |-> 0, subtopics |-> 0, outcome |-> "none"]

InitCommon ==
    /\ InitTasks
    /\ InitVectorIdle
    /\ InitFeatures
    /\ assistants = {}
    /\ cache = [c \in Chats |-> NoInst]
    /\ freq = [c \in Chats |-> 0]

\* one chat system, used directly, over an index seeded with some text
InitGen ==
    /\ InitCommon
    /\ insts = <<NewInst(0, <<>>, FALSE)>>
    /\ chats = [c \in Chats |-> [exists |-> FALSE, chat_topic |-> Empty, deleted |-> FALSE]]
    /\ messages = <<>>
    /\ labelCalls = [c \in Chats |-> 0]
    /\ textLimit = MaxText
    /\ fragLimit = MaxFragLen

NextGen ==
    \/ \E t \in Tasks : StartGenerate(t)
    \/ \E t \in Tasks : Fragment(t)
    \/ \E t \in Tasks : Resume(t)
    \/ \E t \in Tasks : StreamEnd(t)
    \/ \E t \in Tasks : StreamError(t)
    \/ \E t \in Tasks : Close(t)
    \/ StopGeneration(1)

SpecGen == InitGen /\ [][NextGen]_vars

\* the explore service after a start of the server: no object is held, and
\* the database holds chat 1 with one exchange and the label that its first
\* exchange derived
History == <<[chat |-> 1, q |-> <<0>>, a |-> <<0>>]>>

InitDatabase ==
    /\ chats = [c \in Chats |-> IF c = 1 THEN [exists |-> TRUE, chat_topic |-> <<0>>, deleted |-> FALSE]
                                ELSE [exists |-> FALSE, chat_topic |-> Empty, deleted |-> FALSE]]
    /\ messages = History
    /\ labelCalls = [c \in Chats |-> IF c = 1 THEN 1 ELSE 0]

InitExplore ==
    /\ InitCommon
    /\ InitDatabase
    /\ insts = <<>>
    /\ textLimit = MaxAnswer
    /\ fragLimit = MaxAnswerFragLen

NextExplore ==
    \/ \E t \in Tasks : StartExploration(t)
    \/ \E t \in Tasks : AskQuestion(t)
    \/ \E t \in Tasks : GetChat(t)
    \/ \E t \in Tasks : CheckCache(t)
    \/ \E t \in Tasks : LoadChat(t)
    \/ \E t \in Tasks : LoadContext(t)
    \/ \E t \in Tasks : CreateMessage(t)
    \/ \E t \in Tasks : Fragment(t)
    \/ \E t \in Tasks : Resume(t)
    \/ \E t \in Tasks : StreamEnd(t)
    \/ \E t \in Tasks : StreamError(t)
    \/ \E t \in Tasks : Close(t)
    \/ \E t \in Tasks : SetChatTopic(t)
    \/ \E t \in Tasks : WriteChatTopic(t)
    \/ \E t \in Tasks : ReflectUpdate(t)

SpecExplore == InitExplore /\ [][NextExplore]_vars

\* the registry on its own: the explore service with a model whose streams
\* produce no text, so that no chunk is ever yielded, over a database that
\* holds chats 1 and 2, of which chat 1 has one exchange
InitRegistry ==
    /\ InitCommon
    /\ chats = [c \in Chats |-> IF c <= 2
                                THEN [exists |-> TRUE, chat_topic |-> <<0>>,
                                      deleted |-> FALSE]
                                ELSE [exists |-> FALSE, chat_topic |-> Empty,
                                      deleted |-> FALSE]]
    /\ messages = History
    /\ labelCalls = [c \in Chats |-> IF c <= 2 THEN 1 ELSE 0]
    /\ insts = <<>>
    /\ textLimit = 0
    /\ fragLimit = 0

NextRegistry ==
    \/ \E t \in Tasks : DeleteChat(t)
    \/ \E t \in Tasks : DeleteRow(t)
    \/ \E t \in Tasks : DeleteEntry(t)
    \/ \E t \in Tasks : StartExploration(t)
    \/ \E t \in Tasks : AskQuestion(t)
    \/ \E t \in Tasks : GetChat(t)
    \/ \E t \in Tasks : CheckCache(t)
    \/ \E t \in Tasks : LoadChat(t)
    \/ \E t \in Tasks : LoadContext(t)
    \/ \E t \in Tasks : CreateMessage(t)
    \/ \E t \in Tasks : Fragment(t)
    \/ \E t \in Tasks : StreamEnd(t)
    \/ \E t \in Tasks : StreamError(t)
    \/ \E t \in Tasks : SetChatTopic(t)
    \/ \E t \in Tasks : WriteChatTopic(t)
    \/ \E t \in Tasks : ReflectUpdate(t)

SpecRegistry == InitRegistry /\ [][NextRegistry]_vars

\* one session: chat 1 with its orchestrator reconstructed and registered,
\* under ask_question calls that may overlap
InitSession ==
    /\ InitTasks
    /\ InitVectorIdle
    /\ InitFeatures
    /\ assistants = {}
    /\ InitDatabase
    /\ insts = <<NewInst(1, RowsOf(History, 1), TRUE)>>
    /\ cache = [c \in Chats |-> IF c = 1 THEN 1 ELSE NoInst]
    /\ freq = [c \in Chats |-> IF c = 1 THEN 1 ELSE 0]
    /\ textLimit = MaxAnswer
    /\ fragLimit = MaxAnswerFragLen

NextSession ==
    \/ \E t \in Tasks : AskQuestion(t)
    \/ \E t \in Tasks : CreateMessage(t)
    \/ \E t \in Tasks : Fragment(t)
    \/ \E t \in Tasks : Resume(t)
    \/ \E t \in Tasks : StreamEnd(t)
    \/ \E t \in Tasks : StreamError(t)
    \/ \E t \in Tasks : Close(t)
    \/ \E t \in Tasks : SetChatTopic(t)
    \/ \E t \in Tasks : WriteChatTopic(t)
    \/ \E t \in Tasks : ReflectUpdate(t)

SpecSession == InitSession /\ [][NextSession]_vars

\* one VectorDB under calls of any kind: VectorDB.__init__ over a seed text
\* or none, lines 38-45; Tracked are the queries whose retrievals are put on
\* record
InitVector(Tracked, Slots) ==
    /\ InitTasks
    /\ InitFeatures
    /\ assistants = {}
    /\ cache = [c \in Chats |-> NoInst]
    /\ freq = [c \in Chats |-> 0]
    /\ insts = <<>>
    /\ chats = [c \in Chats |-> [exists |-> FALSE, chat_topic |-> Empty, deleted |-> FALSE]]
    /\ messages = <<>>
    /\ labelCalls = [c \in Chats |-> 0]
    /\ textLimit = 0
    /\ fragLimit = 0
    /\ \E seeded \in BOOLEAN : index = SeedIndex(EmptyIndex, seeded, 0)
    /\ qcache = <<>>
    /\ now = 0
    /\ epoch = 0
    /\ adds = [s \in 1..Slots |-> IdleAdd]
    /\ call = NoCall
    /\ lastFetch = [q \in Tracked |-> NoFetch]

\* the argument checks: calls with any value, proper string or not; one
\* proper string is enough, since the store treats every text alike
NextVectorArgs ==
    \/ Query(Args(Strings(1)))
    \/ AddInteraction(Args(Strings(1)))
    \/ AddMessage(Args(Strings(1)))
    \/ \E s \in DOMAIN adds : SaveContext(s)
    \/ \E s \in DOMAIN adds : AddTexts(s)

SpecVectorArgs == InitVector({}, MaxAdds) /\ [][NextVectorArgs]_vars

\* the query cache: queries while time passes and the store changes.  The
\* retrievals of query 1 are on record; the other queries are the ones that
\* compete with it for the cache's room; the adds come one at a time
NextVectorCache ==
    \/ Query(Strings(MaxQueries))
    \/ AddMessage(Strings(1))
    \/ \E s \in DOMAIN adds : SaveContext(s)
    \/ Clear
    \/ Tick

SpecVectorCache == InitVector({1}, 1) /\ [][NextVectorCache]_vars

\* clearing: queries and adds around clear() calls, within one TTL window
NextVectorClear ==
    \/ Query(Strings(1))
    \/ AddInteraction(Strings(1))
    \/ AddMessage(Strings(1))
    \/ \E s \in DOMAIN adds : SaveContext(s)
    \/ \E s \in DOMAIN adds : AddTexts(s)
    \/ Clear

SpecVectorClear == InitVector({}, MaxAdds) /\ [][NextVectorClear]_vars

\* the thread service after a start of the server, under generate_content
\* and create_thread calls that may overlap
NextThreads ==
    \/ \E t \in Tasks : CreateThread(t)
    \/ \E t \in Tasks : GenerateContent(t)
    \/ \E t \in Tasks : LoadThread(t)
    \/ \E t \in Tasks : AcquireLock(t)
    \/ \E t \in Tasks : ContentStream(t)
    \/ \E t \in Tasks : CreateContentModel(t)

SpecThreads == InitExplore /\ [][NextThreads]_vars

\* stream_chat calls on one ThreadIDChat, by consumers that drain the stream
\* or close it at any chunk, over a model stream that may fail at any moment
NextStreamChat ==
    \/ \E t \in Tasks : StreamChat(t)
    \/ \E t \in Tasks : Fragment(t)
    \/ \E t \in Tasks : Resume(t)
    \/ \E t \in Tasks : StreamEnd(t)
    \/ \E t \in Tasks : StreamError(t)
    \/ \E t \in Tasks : Close(t)
    \/ \E t \in Tasks : CreateChat(t)

SpecStreamChat == InitGen /\ [][NextStreamChat]_vars

\* roadmaps are created and the statuses of their nodes updated, one
\* operation after the other
NextRoadmap ==
    \/ CreateRoadmap
    \/ CreateNode
    \/ CountNodes
    \/ UpdateNodeStatus
    \/ UpdateProgress

SpecRoadmap == InitExplore /\ [][NextRoadmap]_vars

\* the event loop runs every task that can go on: the database and the
\* model answer, the content stream is consumed to its end, and
\* asyncio.Lock hands a released lock to a waiting caller
SpecThreadsFair ==
    /\ SpecThreads
    /\ \A t \in Tasks : /\ WF_vars(LoadThread(t)) /\ WF_vars(AcquireLock(t))
                        /\ WF_vars(ContentStream(t)) /\ WF_vars(CreateContentModel(t))

\* one generate_topics call on any path and any model stream
NextTopics ==
    \/ GenerateTopics
    \/ StreamPiece
    \/ TopicsStreamEnd

SpecTopics == InitExplore /\ [][NextTopics]_vars

\* ------------------------------------------------------------------ claims
\* C1: when a generation completes normally, the chunks it emitted, joined in
\* order, are exactly the characters the model produced: nothing is lost,
\* duplicated or reordered, whatever the lengths of the fragments.
C1_NoLossBuffering ==
    \A t \in Tasks :
        task[t].outcome = "completed"
            => Flatten(task[t].yielded) = Chars(t, 0, task[t].received)

\* a completed generation that emitted an overfull chunk and then a partial flush
C1_Witness ==
    \E t \in Tasks :
        /\ task[t].outcome = "completed"
        /\ Len(task[t].yielded) >= 2
        /\ Len(task[t].yielded[1]) > DEFAULT_BUFFER_SIZE
        /\ Len(task[t].yielded[Len(task[t].yielded)]) < DEFAULT_BUFFER_SIZE

\* C2: when stop_generation() was called during a generation and a
\* per-fragment check followed it, the chunks the generation emitted join to
\* exactly the characters accumulated before that check.
C2_CancellationLaw ==
    \A t \in Tasks :
        (task[t].outcome \in {"completed", "cancelled"}
            /\ stopAt[t].called /\ stopAt[t].checks = 1)
            => Flatten(task[t].yielded) = Chars(t, 0, stopAt[t].atCheck)

\* C3: once stop_generation() was called during a generation, the next
\* incoming fragment ends the stream: that fragment and later ones are not
\* accumulated, and the generator no longer waits for the model.
C3_CancellationResponse ==
    \A t \in Tasks :
        (stopAt[t].called /\ stopAt[t].checks = 1)
            => (task[t].received = stopAt[t].atCheck /\ task[t].pc # "astream")

\* ResearchAssistant.generate_answer is running for task t: from its
\* first await (the empty message) to the end of its cleanup
InFlight(t) ==
    /\ task[t].op \in {"ask", "start"}
    /\ task[t].pc \in {"create_message", "astream", "yield_full", "yield_stop",
                       "yield_last", "set_topic", "write_topic", "update_message"}

\* C4: no two generate_answer calls on the same orchestrator are in flight
\* at once: a second call waits for the first or is rejected.
C4_AtMostOneGeneration ==
    \A t, u \in Tasks :
        (t # u /\ InFlight(t) /\ InFlight(u)) => task[t].inst # task[u].inst

\* _load_chat_messages of task t is between its check and its registration
Loading(t) ==
    /\ task[t].op \in {"ask", "get_chat"}
    /\ task[t].pc \in {"load_chat", "load_context"}

\* C5: for one chat id, at most one reconstruction is under way at any
\* time, however many callers access the cold id at once.
C5_SingleFlight ==
    \A t, u \in Tasks :
        (t # u /\ Loading(t) /\ Loading(u)) => task[t].chat # task[u].chat

\* the get-or-create access of task t has returned an object
Accessed(t) == task[t].op \in {"ask", "get_chat"} /\ task[t].inst # NoInst

\* C6: an access that begins when an earlier access has registered an object
\* for the chat, with no eviction since, returns that same object and
\* constructs nothing.
C6_RegistryIdempotence ==
    \A t \in Tasks :
        (Accessed(t) /\ task[t].prev # NoInst)
            => (task[t].inst = task[t].prev /\ ~task[t].rebuilt)

\* one access has constructed and registered an object, a later one got it
C6_Witness ==
    \E t, u \in Tasks :
        /\ t # u
        /\ Accessed(u) /\ task[u].rebuilt
        /\ Accessed(t) /\ ~task[t].rebuilt /\ task[t].prev = task[u].inst
        /\ task[t].inst = task[u].inst

\* C7: when a call retrieves its history, the history holds the interaction
\* of every call that has finished before on the same orchestrator.
C7_InteractionsFeedMemory ==
    [][\A t, u \in Tasks :
          (/\ task[t].pc = "create_message" /\ task'[t].pc = "astream"
           /\ task[u].pc = "done" /\ task[u].op \in {"ask", "start"}
           /\ task[u].inst = task[t].inst)
          => \E k \in 1..Len(task'[t].history) : task'[t].history[k].q = task[u].q]_vars

Cleanup == {"set_topic", "write_topic", "update_message"}

C9_LabelOnce == \A c \in Chats : labelCalls[c] <= 1

\* C10: the history a call retrieves holds only interactions that were
\* persisted in full: never the empty message of a call still in progress.
C10_PersistBeforeVisible ==
    \A t \in Tasks : \A k \in 1..Len(task[t].history) :
        task[t].history[k].q # Empty
\* a step that is the call query_history(Str(q))
QueryStep(q) ==
    /\ call'.op = "query" /\ call'.args = <<Str(q)>>
    /\ (call' # call \/ qcache' # qcache)

\* what C11 says of a query step: the result of the last retrieval for q is
\* returned and the retriever is not invoked
ServedFromCache(q) ==
    /\ call'.outcome = "ok"
    /\ call'.result = lastFetch[q].result
    /\ ~call'.retrieved

\* a retrieval for q succeeded less than TTL ago, with no clear since
FetchedWithinTTL(q) == lastFetch[q].done /\ now < lastFetch[q].at + TTL

C12_InvalidRejected ==
    [][(/\ call' # call
        /\ call'.op \in {"query", "add_interaction", "add_message"}
        /\ \E k \in 1..Len(call'.args) :
              ~Truthy(call'.args[k]) \/ ~IsStr(call'.args[k]))
       => (call'.outcome = "ValueError" /\ UNCHANGED <<index, qcache, adds>>)]_vars

\* add_interaction was rejected for its second argument, on a store that
\* holds added texts
C12_Witness ==
    /\ call.op = "add_interaction" /\ call.outcome = "ValueError"
    /\ call.args[1] = Str(1) /\ call.args[2] = NonStr
    /\ Cardinality(Held(index)) >= 2

\* C13: whatever a query returns was put into the store since the last
\* clear(): every text of its result belongs to the build of the store that
\* was current at the call.
C13_ClearedResults ==
    (call.op = "query" /\ call.outcome = "ok")
        => \A i \in 1..Len(call.result) : call.result[i].gen = call.gen

\* a query after a clear returned a text
C13_Witness ==
    /\ call.op = "query" /\ call.outcome = "ok" /\ call.gen >= 1
    /\ call.result # <<>>

\* C14: in every state between two steps, the store and the cache belong to
\* the same build: neither holds a text put in before the last clear().
C14_AtomicClear ==
    /\ \A k \in Held(index) : index[k].gen = epoch
    /\ \A k \in 1..Len(qcache) : \A i \in 1..Len(qcache[k].result) :
          qcache[k].result[i].gen = epoch

\* a clear() came while an add was in progress, and a query was cached after it
C14_Witness ==
    /\ epoch >= 1 /\ qcache # <<>>
    /\ \E s \in DOMAIN adds : adds[s].pc # "idle" /\ adds[s].gen < epoch

\* C15: a query whose cache entry has outlived its time invokes the retriever
\* and returns what it retrieved, which is stored with a new lifetime.
C15_TTLExpiry ==
    [][\A q \in 1..MaxQueries :
          (QueryStep(q) /\ Present(qcache, q) /\ Expired(EntryOf(qcache, q)))
          => /\ call'.retrieved
             /\ call'.outcome = "ok" =>
                  /\ call'.result \in Retrievals(index)
                  /\ Present(qcache', q)
                  /\ EntryOf(qcache', q).result = call'.result
                  /\ EntryOf(qcache', q).expires = now + TTL]_vars

\* a query found its entry expired, at a time when a full lifetime has passed,
\* and retrieved its result again
C15_Witness ==
    /\ call.op = "query" /\ call.outcome = "ok" /\ call.expired
    /\ now >= TTL

\* C16: a query whose retrieval fails leaves the cache as it was, and an
\* entry enters the cache only in a query step that retrieved its result.
C16_WriteAfterSuccess ==
    [][/\ \A q \in 1..MaxQueries :
            (QueryStep(q) /\ call'.outcome = "RetrievalFailure") => qcache' = qcache
       /\ \A k \in 1..Len(qcache') :
            (\A j \in 1..Len(qcache) : qcache[j] # qcache'[k])
            => /\ call'.op = "query" /\ call'.outcome = "ok" /\ call'.retrieved
               /\ call'.args = <<Str(qcache'[k].q)>>
               /\ qcache'[k].result = call'.result]_vars

\* a retrieval failed for a query the cache holds nothing for, while it
\* holds the result of another
C16_Witness ==
    /\ call.op = "query" /\ call.outcome = "RetrievalFailure"
    /\ ~Present(qcache, Id(call.args[1]))
    /\ qcache # <<>>
\* C17: the explore registry never holds more objects than its capacity, and
\* the service's other map of assistants holds none.
C17_BoundedRegistry ==
    /\ Cardinality(Cached) <= CacheMaxSize
    /\ Cardinality(assistants) = 0

\* the registry is full, and an object registered before is no longer held
\* although its chat was not deleted
C17_Witness ==
    /\ Cardinality(Cached) = CacheMaxSize
    /\ \E i \in 1..Len(insts) :
         /\ insts[i].by_id /\ chats[insts[i].chat].exists
         /\ cache[insts[i].chat] = NoInst
\* C18: a generation that the model's failure has ended has emitted full
\* buffers only, in order, and has not emitted the partial buffer it held
\* when the model failed.
C18_NoPartialOnFailure ==
    \A t \in Tasks :
        task[t].outcome = "failed"
            => LET out == Flatten(task[t].yielded) IN
               /\ \A k \in 1..Len(task[t].yielded) :
                     Len(task[t].yielded[k]) >= DEFAULT_BUFFER_SIZE
               /\ out = Chars(t, 0, Len(out))
               /\ Len(out) <= task[t].received
               /\ task[t].received - Len(out) < DEFAULT_BUFFER_SIZE

\* the model failed after a chunk was emitted, with a partial buffer held
C18_Witness ==
    \E t \in Tasks :
        /\ task[t].outcome = "failed"
        /\ task[t].yielded # <<>>
        /\ task[t].received > Len(Flatten(task[t].yielded))

Failed(t) == task[t].outcome \in {"failed", "retrieval_failed"}

\* C19: a generation that has failed has returned, with no buffer left and
\* the flag its generator reads cleared; a generation that starts later on
\* the same chat system and completes has emitted exactly its own text.
C19_RecoveryAfterFailure ==
    /\ \A t \in Tasks :
          Failed(t) => /\ task[t].pc = "done" /\ task[t].buffer = Empty
                       /\ (\A u \in Tasks : ~Generating(u))
                             => ~insts[task[t].inst].stop_generation
    /\ \A t, u \in Tasks :
          (Failed(t) /\ t < u /\ task[u].outcome = "completed")
             => Flatten(task[u].yielded) = Chars(u, 0, task[u].received)

\* after a failed generation the next one on the same chat system completed
\* with a text of more than one chunk
C19_Witness ==
    \E t, u \in Tasks :
        /\ t < u /\ task[t].outcome = "failed" /\ task[t].received > 0
        /\ task[u].outcome = "completed" /\ task[u].inst = task[t].inst
        /\ Len(task[u].yielded) >= 2

\* C20: a generation whose history retrieval failed has ended with that
\* failure (after the cleanup, for an orchestrated call), without having
\* waited for the model and without a chunk.
C20_RetrievalFailureAborts ==
    \A t \in Tasks :
        task[t].retrieval = "failed"
            => /\ task[t].yielded = <<>> /\ task[t].received = 0
               /\ task[t].pc \in Cleanup \cup {"done"}
               /\ task[t].op = "generate" => task[t].outcome = "retrieval_failed"

\* the retrieval failed for a generation that followed a completed one
C20_Witness ==
    \E t, u \in Tasks :
        /\ t < u /\ task[t].outcome = "completed" /\ task[t].yielded # <<>>
        /\ task[u].retrieval = "failed" /\ task[u].outcome = "retrieval_failed"

\* C21: a generation that has completed normally on a text of N characters
\* has emitted ceil(N / DEFAULT_BUFFER_SIZE) chunks, however the model split
\* the text into fragments.
C21_ChunkCount ==
    \A t \in Tasks :
        task[t].outcome = "completed"
            => Len(task[t].yielded)
                 = (task[t].received + DEFAULT_BUFFER_SIZE - 1) \div DEFAULT_BUFFER_SIZE

\* C28: once a fragment has been processed (the generator waits for the
\* next one) the buffer is shorter than the threshold; every chunk emitted
\* is non-empty; every chunk but the final flush is at least as long as the
\* threshold.
C28_BoundedBuffer ==
    [][\A t \in Tasks :
          LET out == task'[t].yielded
              \* the chunk this step has emitted, if any
              emitted == IF Len(out) = Len(task[t].yielded) + 1
                         THEN <<out[Len(out)]>> ELSE <<>>
          IN
          /\ task'[t].pc = "astream" => Len(task'[t].buffer) < DEFAULT_BUFFER_SIZE
          /\ \A k \in 1..Len(emitted) :
                /\ Len(emitted[k]) >= 1
                /\ task'[t].pc # "yield_last"
                      => Len(emitted[k]) >= DEFAULT_BUFFER_SIZE]_vars

\* a completed generation emitted a chunk longer than the threshold and
\* then a final flush shorter than it
C28_Witness ==
    \E t \in Tasks :
        /\ task[t].outcome = "completed" /\ Len(task[t].yielded) = 2
        /\ Len(task[t].yielded[1]) > DEFAULT_BUFFER_SIZE
        /\ Len(task[t].yielded[2]) < DEFAULT_BUFFER_SIZE

\* BaseChatSystem.generate_response, lines 141-153: what it has yielded for
\* the chunks _generate_text has yielded: each chunk with the metadata
\* object as it stands at that yield (prompt_tokens set once at line 146
\* from the question and the extra instructions, which default to "";
\* response_tokens overwritten at line 152)
GenerateResponse(me) ==
    [k \in 1..Len(me.yielded) |->
        [chunk |-> me.yielded[k],
         response_tokens |-> Len(me.yielded[k]),
         prompt_tokens |-> Len(me.q) + Len(Empty)]]

\* C22: the metadata yielded with the i-th chunk gives as response length
\* the total length of chunks 1..i, and as prompt length the length of the
\* question plus that of the extra instructions.
C22_ChunkMetadata ==
    \A t \in Tasks :
        \A i \in 1..Len(task[t].yielded) :
            /\ GenerateResponse(task[t])[i].response_tokens
                  = Len(Flatten(SubSeq(task[t].yielded, 1, i)))
            /\ GenerateResponse(task[t])[i].prompt_tokens = Len(task[t].q)

\* C23: a step that is no successful clear() leaves every text the store
\* holds as it is and where it is (it may add texts); a successful clear()
\* leaves the store with its seed text alone, or with nothing when the seed
\* is empty, and nothing of what it held before.
C23_AppendOnlyIndex ==
    [][IF epoch' # epoch
       THEN /\ call'.op = "clear" /\ call'.outcome = "ok"
            /\ \A k \in Held(index') :
                   index'[k].kind = "seed" /\ index'[k].gen = epoch'
       ELSE \A k \in Held(index) : index'[k] = index[k]]_vars

\* after a clear() that seeded the store anew, a message was added to it
\* and the seed is still there
C23_Witness ==
    /\ epoch >= 1
    /\ \E k, m \in Held(index) :
          /\ index[k] = Text(epoch, "seed") /\ index[m] = Text(epoch, "message")
    /\ call.op = "query" /\ call.outcome = "ok"

\* C24: a delete_chat call whose deletion has ended has True for a chat
\* that existed, which is then deleted, and False, without an exception,
\* for an id no chat has; and when the call returns, the registry holds no
\* object for the id.
C24_DeleteChat ==
    [][\A t \in Tasks :
          LET c == task[t].chat IN
          /\ (task[t].pc = "delete_row" /\ task'[t].pc # "delete_row")
                => IF chats[c].exists
                   THEN task'[t].outcome = "True" => ~chats'[c].exists
                   ELSE task'[t].outcome = "False"
          /\ (task[t].pc = "delete_entry" /\ task'[t].pc = "done")
                => /\ cache'[c] = NoInst
                   /\ task'[t].outcome = task[t].outcome]_vars

\* C25: when a start_exploration call ends, the registry holds, under the
\* id of the chat it created, the object it created for it.
C25_StartRegisters ==
    [][\A t \in Tasks :
          (task[t].op = "start" /\ task[t].pc # "done" /\ task'[t].pc = "done")
             => cache'[task[t].chat] = task[t].inst]_vars

\* C29: a generate_answer call adds one row to its chat, the message it
\* created, and when it ends every other row of the table has the question
\* and the answer it had before the call wrote its own.
C29_EarlierExchangesIntact ==
    [][\A t \in Tasks :
          /\ (task[t].pc = "create_message" /\ task'[t].pc # "create_message")
                => /\ Len(messages') = Len(messages) + 1
                   /\ \A k \in 1..Len(messages) : messages'[k] = messages[k]
          /\ (task[t].pc = "update_message" /\ task'[t].pc = "done")
                => /\ Len(messages') = Len(messages)
                   /\ \A k \in 1..Len(messages) :
                         k # task[t].msg => messages'[k] = messages[k]]_vars

\* C30: whatever a query returns is a result the retriever could give on
\* the store as it stands at the call, which is what the same calls give on
\* a VectorDB whose every lookup is a miss.
C30_TransparentCache ==
    [][\A q \in 1..MaxQueries :
          (QueryStep(q) /\ call'.outcome = "ok")
             => call'.result \in Retrievals(index)]_vars

\* C26: a generate_content call on a thread that exists in the database,
\* held by the registry or not, ends when the thread's content stream ends
\* and has then yielded every item the stream produced.
C26_GenerateContent ==
    [][\A t \in Tasks :
          (/\ gcalls[t].pc # "done" /\ gcalls'[t].pc = "done"
           /\ contents[gcalls[t].thread].exists)
             => /\ gcalls'[t].outcome = "exhausted"
                /\ gcalls'[t].yielded = gcalls'[t].produced]_vars

\* C27: a generate_topics call has yielded every block parsed from the
\* stream, in order; it raises ValueError on an empty path only; and when
\* it has ended after a block of every level, it has saved the topic once
\* and the subtopics once.
C27_GenerateTopics ==
    /\ topicGen.yielded = topicGen.parsed
    /\ topicGen.outcome = "ValueError" => topicGen.path = 0
    /\ (topicGen.pc = "done" /\ HasEveryLevel(Flatten(topicGen.parsed)))
          => (topicGen.topics = 1 /\ topicGen.subtopics = 1)

\* C31: an add_interaction that was in progress when clear() ran adds
\* nothing to the store built by that clear(), and whenever the store holds
\* the "Human:" / "AI:" texts of an interaction it holds the document the
\* memory saved of it.
C31_NoLeakIntoCleared ==
    [][/\ \A s \in DOMAIN adds :
            (/\ adds[s].kind = "interaction" /\ adds[s].pc # "idle"
             /\ adds[s].gen < epoch /\ epoch' = epoch)
               => index' = index
       /\ \A k, m \in 1..Len(index') :
            (index'[k].kind = "human" /\ index'[k].in /\ index'[m].kind = "context")
               => index'[m].in]_vars

\* C32: a generation is cancelled only if stop_generation() was called
\* while it was running: a stop called during an earlier generation, or
\* while no generation ran, cancels nothing later, and such a generation, if
\* it completes, has emitted its whole text.
C32_StopNotCarriedOver ==
    \A u \in Tasks :
        ~stopAt[u].called
           => /\ ~task[u].cancelled /\ task[u].outcome # "cancelled"
              /\ task[u].pc # "yield_stop"
              /\ task[u].outcome = "completed"
                    => Flatten(task[u].yielded) = Chars(u, 0, task[u].received)

\* stop_generation() was called before the second generation started, and
\* not during it; the second generation completed with more than one chunk
C32_Witness ==
    \E u \in Tasks :
        /\ u > 1 /\ insts[1].stop_generating /\ ~stopAt[u].called
        /\ task[u].outcome = "completed" /\ Len(task[u].yielded) >= 2

\* C33: on every Thread object at most one generate_content call is in
\* the producing section; is_generating is True exactly while one is; and
\* when none is, content_queue is empty.
C33_MutualExclusion ==
    \A o \in 1..Len(threads) :
        LET producing == {t \in Tasks : /\ gcalls[t].obj = o
                                        /\ gcalls[t].pc \in {"stream", "create_content"}}
        IN /\ Cardinality(producing) <= 1
           /\ threads[o].is_generating <=> producing # {}
           /\ producing = {} => threads[o].queue = 0

\* a call is producing on a Thread while another call on the same Thread
\* waits for the lock
C33_Witness ==
    \E t, u \in Tasks :
        /\ gcalls[t].obj = gcalls[u].obj
        /\ gcalls[t].pc = "create_content" /\ gcalls[u].pc = "locking"

\* C34: every generate_content call that has started ends, and every
\* generation_lock that is taken is released again.
C34_EveryCallEnds ==
    /\ \A t \in Tasks : (gcalls[t].pc # "idle") ~> (gcalls[t].pc = "done")
    /\ \A o \in 1..MaxTasks :
          (o <= Len(threads) /\ threads[o].locked)
             ~> (o <= Len(threads) /\ ~threads[o].locked)

\* a call that found the lock taken has gone through the producing section
\* after the producer before it failed, and the lock is free again
C34_Witness ==
    \E t, u \in Tasks :
        /\ t # u /\ gcalls[t].obj = gcalls[u].obj
        /\ gcalls[u].waited /\ gcalls[u].pc = "done" /\ gcalls[u].outcome # "returned"
        /\ gcalls[t].pc = "done" /\ gcalls[t].outcome = "raised"
        /\ ~threads[gcalls[u].obj].locked

\* C35: between operations every roadmap row counts its nodes
\* (total_nodes) and its completed nodes (completed_nodes), with
\* 0 <= completed_nodes <= total_nodes; and an update_node_status with a
\* status outside {0, 1, 2} raises ValueError and changes no row.
C35_ProgressConsistent ==
    [][/\ rcall'.pc = "idle"
          => \A r \in 1..Len(roadmaps') :
               LET row == roadmaps'[r] IN
               /\ row.total_nodes = Len(row.nodes)
               /\ row.completed_nodes =
                     Cardinality({k \in 1..Len(row.nodes) : row.nodes[k] = COMPLETED})
               /\ 0 <= row.completed_nodes /\ row.completed_nodes <= row.total_nodes
       /\ (rcall'.op = "update" /\ rcall'.n \notin {NOT_STARTED, IN_PROGRESS, COMPLETED})
          => (rcall'.outcome = "ValueError" /\ roadmaps' = roadmaps)]_vars

\* C36: the blocks _stream_topic_generation has yielded are the complete
\* well-formed blocks of the stream it has read (one JSON object of a valid
\* level, then the delimiter), each once and in stream order, whatever
\* came before them.
C36_NoBlockLostOrRepeated ==
    LET stream == topicGen.stream
        Valid(level) == \E k \in 1..Len(VALID_DIFFICULTIES) : VALID_DIFFICULTIES[k] = level
        WellFormed(i) == /\ stream[i][1] = "end" /\ i > 1
                         /\ stream[i - 1][1] = "json" /\ Valid(stream[i - 1][2])
                         /\ (i = 2 \/ stream[i - 2][1] = "end")
        Blocks[i \in 0..Len(stream)] ==
            IF i = 0 THEN <<>>
            ELSE IF WellFormed(i) THEN Append(Blocks[i - 1], <<<<stream[i - 1][2], "topics">>>>)
            ELSE Blocks[i - 1]
    IN topicGen.parsed = Blocks[Len(stream)]

\* C37: a stream_chat call that has ended, however it ended, has written
\* one row of thread_content_chat, with the question asked and the join of
\* the chunks it yielded; and no call has a row while it can still yield.
C37_OneRecordPerCall ==
    \A t \in Tasks :
        LET rows == {k \in 1..Len(content_chats) : content_chats[k].call = t} IN
        /\ task[t].pc # "done" => rows = {}
        /\ task[t].pc = "done"
              => /\ Cardinality(rows) = 1
                 /\ \A k \in rows :
                      /\ content_chats[k].user_question = task[t].q
                      /\ content_chats[k].ai_answer = Flatten(task[t].yielded)

\* a call that its consumer closed after a chunk, and a call whose model
\* stream failed, have each written their row
C37_Witness ==
    \E t, u \in Tasks :
        /\ task[t].pc = "done" /\ task[t].outcome = "closed" /\ task[t].yielded # <<>>
        /\ task[u].pc = "done" /\ task[u].outcome = "failed"
        /\ Len(content_chats) = 2
====
